---- MODULE Spec2Model ----
(***************************************************************************)
(* Pipeline engine of reto_virgin_mobile: PipelineEngine.run / run_node,   *)
(* the Node wiring of NodesEngine / PipelineLoader.instantiate_nodes,      *)
(* PipelineLoader.resolve_env_vars, are_types_compatible and               *)
(* build_pipeline_from_yaml, and NodesRegistry.get_node_class.             *)
(***************************************************************************)
EXTENDS Integers, Sequences, FiniteSets, TLC

VARIABLES
    pipe,      \* the loaded pipeline (graph + entry) the engine runs
    input,     \* input_data handed to PipelineEngine.run
    thr,       \* threads: thr[1] is the caller of run, the rest entry threads / pool jobs
    lock,      \* PipelineEngine.lock: 0 when free, else the index of the holder
    buf,       \* PipelineEngine.node_input_buffer
    mpc,       \* position of the caller inside PipelineEngine.run
    fi,        \* index of the finalize loop over self.nodes.values()
    since,     \* history: keys delivered to a node since its last execution was triggered
    fresh,     \* history: a key was stored for the node since its buffer was last cleared
    nruns,     \* history: number of node.run invocations per node
    runlog,    \* history: the node.run invocations (node, argument, phase)
    raised,    \* history: nodes whose run / finalize raised
    completed, \* history: propagation loops that ran to their end
    finalized, \* history: the nodes whose finalize was invoked, in order
    delivered, \* history: number of run_node calls made per target node
    doc,       \* loader: pipeline_config["nodes"], each entry a name and its outputs
    node_map,  \* loader: node_map of instantiate_nodes, name -> instance (0: no entry)
    outputs,      \* Node.outputs of every instance
    inputs,       \* Node.inputs of every instance
    wpc,       \* loader: position inside instantiate_nodes
    wi,        \* loader: index of the node entry being handled
    wj,        \* loader: index into that entry's outputs
    cfg,       \* loader: the parsed document handed to resolve_env_vars
    env,       \* os.environ
    expanded,  \* loader: what resolve_env_vars returned
    epc,       \* loader: position around resolve_env_vars
    types,        \* loader: node_conf["type"] of every entry of the document
    NODE_CLASSES, \* NodesRegistry.NODE_CLASSES, the cache of loaded classes
    calls,        \* history: the get_node_class calls (name, outcome, cache before)
    werr,         \* loader: the exception instantiate_nodes raised (None: none)
    build,        \* loader: build_pipeline_from_yaml (document fields, position, outcome)
    output_type,  \* type check: the producer's declared output_type
    input_type,   \* type check: the consumer's declared input_type
    compatible,   \* type check: what are_types_compatible returned
    tpc,          \* type check: position around are_types_compatible
    api           \* APIReaderNode.run: the responses to come, position, sleep, outcome

engineVars == <<pipe, input, thr, lock, buf, mpc, fi, since, fresh, nruns, runlog,
                raised, completed, finalized, delivered>>

wireVars == <<doc, node_map, outputs, inputs, wpc, wi, wj, types, NODE_CLASSES, calls, werr>>

envVars == <<cfg, env, expanded, epc>>

buildVars == <<build>>

typeVars == <<output_type, input_type, compatible, tpc>>

apiVars == <<api>>

vars == <<engineVars, wireVars, envVars, buildVars, typeVars, apiVars>>

----------------------------------------------------------------------------
(* Python values *)

NoKey == "None"          \* input_name=None
NoneV == "None"          \* the value None
Absent == "<absent>"     \* key not in a dict

NoneRes == [kind |-> "none", items |-> <<>>, v |-> NoneV]
MapRes(items) == [kind |-> "map", items |-> items, v |-> NoneV]
ListRes(items) == [kind |-> "list", items |-> items, v |-> NoneV]
BareRes(v) == [kind |-> "bare", items |-> <<>>, v |-> v]
RaiseRes == [kind |-> "raise", items |-> <<>>, v |-> NoneV]

\* faulty variant: nothing is truthy
TruthyNever(x) == FALSE

\* bool(x) of None / dict, as in "if input_data:" and "if final_output:"
Truthy(x) == x.kind = "map" /\ x.items # <<>>

\* d.get(k) on a mapping kept as its (key, value) items
RECURSIVE Lookup(_, _)
Lookup(items, k) ==
    IF items = <<>> THEN Absent
    ELSE IF items[Len(items)][1] = k THEN items[Len(items)][2]
    ELSE Lookup(SubSeq(items, 1, Len(items) - 1), k)

Range(s) == {s[i] : i \in 1..Len(s)}

----------------------------------------------------------------------------
(* Node classes: the node contract as the engine sees it *)

Keys == {"trigger", "data", "data_1", "data_2", "extra", "a", "ka", "kb", "output_path"}

NodeNames == {"Start", "ReadA", "ReadB", "Merge", "Write", "Split", "Sink", "Fan",
              "Route", "MA", "MB", "Boom", "BoomIn", "BoomJob", "Defer", "Scalar", "BadFin",
              "Dup", "Late", "Last"}

\* getattr(node, "required_inputs", None)
Required(n) ==
    CASE n = "Merge"   -> <<"data_1", "data_2">>
      [] n = "Write"   -> <<"data">>
      [] n = "Route"   -> <<"a">>
      [] n = "MA"      -> <<"ka">>
      [] n = "MB"      -> <<"kb">>
      [] n = "BoomIn"  -> <<"data">>
      [] n = "BoomJob" -> <<"a">>
      [] n = "Scalar"  -> <<"data">>
      [] OTHER         -> <<>>

\* getattr(node, "defer_output", False)
DeferOutput(n) == n = "Defer"

\* hasattr(node, "finalize")
HasFinalize(n) == n \in {"Defer", "BadFin", "Late", "Last"}

\* node.finalize()
FinalizeResult(n) ==
    CASE n = "Defer"  -> MapRes(<< <<"data", "42">> >>)
      [] n = "BadFin" -> RaiseRes
      [] OTHER        -> NoneRes

\* node.run(arg): arg is None or the mapping of the required inputs
RunResult(n, arg) ==
    CASE n = "Start"   -> MapRes(<< <<"trigger", "True">> >>)
      [] n = "ReadA"   -> MapRes(<< <<"data_1", "X">> >>)
      [] n = "ReadB"   -> MapRes(<< <<"data_2", "Y">> >>)
      [] n = "Merge"   -> MapRes(<< <<"data", "XY">> >>)
      [] n = "Write"   -> MapRes(<< <<"output_path", "out.csv">> >>)
      [] n = "Split"   -> MapRes(<< <<"data_1", "X">>, <<"data_2", "Y">> >>)
      [] n = "Sink"    -> NoneRes
      [] n = "Fan"     -> ListRes(<< <<"a", "1">>, <<"a", "2">> >>)
      [] n = "Route"   -> IF Lookup(arg.items, "a") = "1"
                          THEN MapRes(<< <<"ka", "k1">> >>)
                          ELSE MapRes(<< <<"kb", "k2">> >>)
      [] n = "MA"      -> MapRes(<< <<"data_1", "X">> >>)
      [] n = "MB"      -> MapRes(<< <<"data_2", "Y">> >>)
      [] n = "Boom"    -> RaiseRes
      [] n = "BoomIn"  -> RaiseRes
      [] n = "BoomJob" -> RaiseRes
      [] n = "Defer"   -> NoneRes
      [] n = "Scalar"  -> BareRes("v")
      [] n = "Dup"     -> ListRes(<< <<"data_1", "X">>, <<"data_1", "X2">>,
                                     <<"data_2", "Y">> >>)
      [] OTHER         -> NoneRes

----------------------------------------------------------------------------
(* Pipelines the engine is run on: nodes in registration order, edges, entry *)

NoOut == [n \in NodeNames |-> <<>>]

Pipe(nodes, edges, entry) == [nodes |-> nodes, outputs |-> edges, entry |-> entry]

FanInPipe ==
    Pipe(<<"Start", "ReadA", "ReadB", "Merge", "Write">>,
         [NoOut EXCEPT !["Start"] = <<"ReadA", "ReadB">>, !["ReadA"] = <<"Merge">>,
                       !["ReadB"] = <<"Merge">>, !["Merge"] = <<"Write">>],
         "Start")

SplitPipe ==
    Pipe(<<"Split", "Merge", "Sink", "Write">>,
         [NoOut EXCEPT !["Split"] = <<"Merge", "Sink">>, !["Merge"] = <<"Write">>],
         "Split")

JoinPipe ==
    Pipe(<<"Fan", "Route", "MA", "MB", "Merge">>,
         [NoOut EXCEPT !["Fan"] = <<"Route">>, !["Route"] = <<"MA", "MB">>,
                       !["MA"] = <<"Merge">>, !["MB"] = <<"Merge">>],
         "Fan")

RacePipe ==
    Pipe(<<"Merge", "Write">>, [NoOut EXCEPT !["Merge"] = <<"Write">>], "Merge")

BoomEntryPipe ==
    Pipe(<<"Boom", "Sink">>, [NoOut EXCEPT !["Boom"] = <<"Sink">>], "Boom")

BoomInlinePipe ==
    Pipe(<<"Merge", "BoomIn", "Sink">>,
         [NoOut EXCEPT !["Merge"] = <<"BoomIn", "Sink">>], "Merge")

BoomJobPipe ==
    Pipe(<<"Fan", "BoomJob">>, [NoOut EXCEPT !["Fan"] = <<"BoomJob">>], "Fan")

BoomFinPipe ==
    Pipe(<<"Defer", "BoomIn">>, [NoOut EXCEPT !["Defer"] = <<"BoomIn">>], "Defer")

DeferPipe ==
    Pipe(<<"Defer", "Scalar", "Sink">>,
         [NoOut EXCEPT !["Defer"] = <<"Scalar">>, !["Scalar"] = <<"Sink">>], "Defer")

BadFinPipe == Pipe(<<"BadFin", "Sink">>, [NoOut EXCEPT !["BadFin"] = <<"Sink">>], "BadFin")

\* the fan-in pipeline started at a node that is not its root (run(entry_name) of main.py)
MidEntryPipe == [FanInPipe EXCEPT !.entry = "ReadA"]

\* the entry node is the child of a node with finalize
FinToEntryPipe ==
    Pipe(<<"Defer", "Sink">>, [NoOut EXCEPT !["Defer"] = <<"Sink">>], "Sink")

\* pooled deliveries in the main traversal, then a deferred emission
FanFinPipe ==
    Pipe(<<"Fan", "Route", "Defer", "Scalar", "Sink">>,
         [NoOut EXCEPT !["Fan"] = <<"Route">>, !["Route"] = <<"Defer">>,
                       !["Defer"] = <<"Scalar">>, !["Scalar"] = <<"Sink">>], "Fan")

\* two nodes with finalize, the first one's finalize raises
TwoFinPipe ==
    Pipe(<<"BadFin", "Defer", "Scalar">>, [NoOut EXCEPT !["Defer"] = <<"Scalar">>], "Defer")

\* one emission that carries the same key twice, to a node that joins two keys
LastWriterPipe == Pipe(<<"Dup", "Merge">>, [NoOut EXCEPT !["Dup"] = <<"Merge">>], "Dup")

\* a list emission to two children, the jobs of the first one raise
FanTwoPipe ==
    Pipe(<<"Fan", "BoomJob", "Sink">>, [NoOut EXCEPT !["Fan"] = <<"BoomJob", "Sink">>], "Fan")

\* a bare value emitted to a child without and a child with required inputs
BarePipe ==
    Pipe(<<"Scalar", "Sink", "Write">>, [NoOut EXCEPT !["Scalar"] = <<"Sink", "Write">>],
         "Scalar")

\* a bare value emitted to a child that raises and to another child after it
BareBoomPipe ==
    Pipe(<<"Scalar", "Boom", "Sink">>, [NoOut EXCEPT !["Scalar"] = <<"Boom", "Sink">>],
         "Scalar")

\* a node without required inputs that emits two keys to another one
SplitSinkPipe == Pipe(<<"Split", "Sink">>, [NoOut EXCEPT !["Split"] = <<"Sink">>], "Split")

\* three nodes with finalize; the first one registered is the child of the second
LatePipe ==
    Pipe(<<"Late", "Defer", "Last">>, [NoOut EXCEPT !["Defer"] = <<"Late">>], "Defer")

NoInput == [kind |-> "none", items |-> <<>>]
MapInput(items) == [kind |-> "map", items |-> items]

JoinInput == MapInput(<< <<"data_1", "X">>, <<"data_2", "Y">> >>)
DataInput == MapInput(<< <<"data", "d">> >>)
\* an initial input with more keys than max_workers
WideInput ==
    MapInput(<< <<"data_1", "X">>, <<"data_2", "Y">>, <<"extra", "E">>, <<"data", "d">>,
                <<"a", "1">>, <<"trigger", "True">> >>)
RaceInput == MapInput(<< <<"data_1", "X">>, <<"data_2", "Y">>, <<"extra", "E">> >>)

\* (pipeline, input_data) pairs run() is called with
Runs ==
    {<<FanInPipe, NoInput>>, <<FanInPipe, MapInput(<<>>)>>, <<SplitPipe, NoInput>>,
     <<JoinPipe, NoInput>>, <<RacePipe, JoinInput>>, <<RacePipe, RaceInput>>,
     <<BoomEntryPipe, NoInput>>, <<BoomInlinePipe, JoinInput>>, <<BoomJobPipe, NoInput>>,
     <<BoomFinPipe, NoInput>>, <<DeferPipe, NoInput>>, <<BadFinPipe, NoInput>>,
     <<MidEntryPipe, NoInput>>, <<FinToEntryPipe, NoInput>>, <<FanFinPipe, NoInput>>,
     <<TwoFinPipe, NoInput>>, <<LastWriterPipe, NoInput>>,
     <<FanTwoPipe, NoInput>>, <<BarePipe, DataInput>>, <<BareBoomPipe, DataInput>>,
     <<BoomEntryPipe, WideInput>>, <<SplitSinkPipe, JoinInput>>,
     <<LatePipe, NoInput>>}

----------------------------------------------------------------------------
(* PipelineEngine state *)

max_workers == 5

\* one activation of run_node(node, input_name, input_value)
Call(n, k, v) ==
    [node |-> n, key |-> k, val |-> v, pc |-> "call", inp |-> NoInput, res |-> NoneRes,
     ci |-> 0, ii |-> 0, jobs |-> {}, clr |-> FALSE, sent |-> <<>>, snap |-> {},
     fin |-> FALSE]

\* the propagation loop of run()'s finalize phase over final_output
FinalCall(n, out) ==
    [Call(n, NoKey, NoneV) EXCEPT !.pc = "prop", !.res = out, !.ci = 1, !.ii = 1,
                                  !.fin = TRUE]

Thread(kind, stack, st, owner) ==
    [kind |-> kind, stack |-> stack, st |-> st, owner |-> owner]

EmptyBuffer == [k \in Keys |-> Absent]

EngineInit ==
    /\ \E r \in Runs : pipe = r[1] /\ input = r[2]
    /\ thr = << Thread("main", <<>>, "run", 0) >>
    /\ lock = 0
    /\ buf = [n \in NodeNames |-> EmptyBuffer]
    /\ mpc = "start"
    /\ fi = 0
    /\ since = [n \in NodeNames |-> {}]
    /\ fresh = [n \in NodeNames |-> FALSE]
    /\ nruns = [n \in NodeNames |-> 0]
    /\ runlog = {}
    /\ raised = {}
    /\ completed = {}
    /\ finalized = <<>>
    /\ delivered = [n \in NodeNames |-> 0]

Threads == DOMAIN thr
Active(t) == thr[t].st = "run" /\ thr[t].stack # <<>>
Top(t) == thr[t].stack[Len(thr[t].stack)]
Below(t) == SubSeq(thr[t].stack, 1, Len(thr[t].stack) - 1)
Phase == IF mpc \in {"start", "join"} THEN "main" ELSE "finalize"

Min(S) == CHOOSE x \in S : \A y \in S : x <= y

\* the "for output_node in node.outputs" loop of a frame has no iteration left
Finished(f) ==
    /\ f.pc = "prop"
    /\ \/ f.ci > Len(pipe.outputs[f.node])
       \/ f.res.kind \in {"map", "list"} /\ f.res.items = <<>>

\* return from every activation that has nothing left to do
RECURSIVE Settle(_)
Settle(stk) ==
    IF stk # <<>> /\ Finished(stk[Len(stk)])
    THEN Settle(SubSeq(stk, 1, Len(stk) - 1))
    ELSE stk

\* what is known of a propagation loop when it ends: normally (ok) or by an exception
Ended(f, ok) ==
    [node |-> f.node, res |-> f.res, sent |-> f.sent, fin |-> f.fin, ok |-> ok]

RECURSIVE Popped(_)
Popped(stk) ==
    IF stk # <<>> /\ Finished(stk[Len(stk)])
    THEN {Ended(stk[Len(stk)], TRUE)} \cup Popped(SubSeq(stk, 1, Len(stk) - 1))
    ELSE {}

\* the propagation loops an exception leaves before their end
Aborted(stk) == {Ended(stk[i], FALSE) : i \in {j \in 1..Len(stk) : stk[j].pc = "prop"}}

\* thread t continues with stack s, or ends; a pool worker that ends its job
\* takes the next queued job of its executor
Finish(t, s, dead) ==
    LET st1 == IF dead THEN "dead"
               ELSE IF s = <<>> /\ t # 1 THEN "done" ELSE thr[t].st
        th1 == [thr EXCEPT ![t].stack = s, ![t].st = st1]
        q == {u \in Threads : thr[u].st = "queued" /\ thr[u].owner = thr[t].owner}
    IN  IF thr[t].kind = "job" /\ st1 \in {"done", "dead"} /\ q # {}
        THEN [th1 EXCEPT ![Min(q)].st = "run"]
        ELSE th1

\* thread t goes on with stack stk after returning from what is finished
Advance(t, stk) ==
    /\ thr' = Finish(t, Settle(stk), FALSE)
    /\ completed' = completed \cup Popped(stk)
    /\ mpc' = IF t = 1 /\ Settle(stk) = <<>> THEN "fin" ELSE mpc
    /\ fi' = IF t = 1 /\ Settle(stk) = <<>> THEN fi + 1 ELSE fi

\* an exception leaves every activation of thread t: an entry thread or a pool job
\* ends with it, the caller of run() gets it
Throw(t) ==
    /\ thr' = Finish(t, <<>>, t # 1)
    /\ mpc' = IF t = 1 THEN "raised" ELSE mpc
    /\ completed' = completed \cup Aborted(thr[t].stack)
    /\ UNCHANGED fi

----------------------------------------------------------------------------
(* PipelineEngine.run: the entry trigger *)

\* faulty variant: "if input_data is not None" in place of "if input_data"
EntryCallsNotNone ==
    IF input.kind = "map"
    THEN [i \in 1..Len(input.items) |->
            Thread("entry", << Call(pipe.entry, input.items[i][1], input.items[i][2]) >>,
                   "run", 1)]
    ELSE << Thread("entry", << Call(pipe.entry, NoKey, NoneV) >>, "run", 1) >>

EntryCalls ==
    IF Truthy(input)
    THEN [i \in 1..Len(input.items) |->
            Thread("entry", << Call(pipe.entry, input.items[i][1], input.items[i][2]) >>,
                   "run", 1)]
    ELSE << Thread("entry", << Call(pipe.entry, NoKey, NoneV) >>, "run", 1) >>

Start ==
    /\ mpc = "start"
    /\ thr' = thr \o EntryCalls
    /\ mpc' = "join"
    /\ delivered' = [delivered EXCEPT ![pipe.entry] = @ + Len(EntryCalls)]
    /\ UNCHANGED <<pipe, input, lock, buf, fi, since, fresh, nruns, runlog, raised,
                   completed, finalized>>

\* faulty variant: the entry threads are not joined
JoinNoWait ==
    /\ mpc = "join"
    /\ mpc' = "fin"
    /\ fi' = 1
    /\ UNCHANGED <<pipe, input, thr, lock, buf, since, fresh, nruns, runlog, raised,
                   completed, finalized, delivered>>

\* for t in threads: t.join()
Join ==
    /\ mpc = "join"
    /\ \A t \in Threads : thr[t].kind = "entry" => thr[t].st \in {"done", "dead"}
    /\ mpc' = "fin"
    /\ fi' = 1
    /\ UNCHANGED <<pipe, input, thr, lock, buf, since, fresh, nruns, runlog, raised,
                   completed, finalized, delivered>>

----------------------------------------------------------------------------
(* PipelineEngine.run_node *)

\* with self.lock:
Acquire(t) ==
    /\ Active(t)
    /\ Top(t).pc = "call"
    /\ lock = 0
    /\ lock' = t
    /\ thr' = [thr EXCEPT ![t].stack[Len(thr[t].stack)].pc = "locked"]
    /\ UNCHANGED <<pipe, input, buf, mpc, fi, since, fresh, nruns, runlog, raised,
                   completed, finalized, delivered>>

\* node_input_buffer[node.name][input_name] = input_value
Store(b, f) == IF f.key # NoKey THEN [b EXCEPT ![f.node][f.key] = f.val] ELSE b

\* faulty variant: any(...) in place of all(...)
ReadyAny(b, n) == \E i \in 1..Len(Required(n)) : b[n][Required(n)[i]] # Absent

\* all(k in node_input_buffer[node.name] for k in required)
Ready(b, n) == \A i \in 1..Len(Required(n)) : b[n][Required(n)[i]] # Absent

\* faulty variant: the input is built from the buffer as it was before the store
RunInputsBefore(b, f) ==
    IF Required(f.node) = <<>>
    THEN IF f.key = NoKey THEN MapInput(<<>>) ELSE MapInput(<< <<f.key, f.val>> >>)
    ELSE MapInput([i \in 1..Len(Required(f.node)) |->
                     <<Required(f.node)[i], buf[f.node][Required(f.node)[i]]>>])

\* the execution input built under the lock
RunInputs(b, f) ==
    IF Required(f.node) = <<>>
    THEN IF f.key = NoKey THEN MapInput(<<>>) ELSE MapInput(<< <<f.key, f.val>> >>)
    ELSE MapInput([i \in 1..Len(Required(f.node)) |->
                     <<Required(f.node)[i], b[f.node][Required(f.node)[i]]>>])

\* faulty variant: a node without required inputs executes on its first delivery only
ExecuteOnce(b, f) ==
    IF Required(f.node) = <<>> THEN nruns[f.node] = 0 ELSE Ready(b, f.node)

\* faulty variant: a delivery without a key never triggers an execution
ExecuteKeyed(b, f) == f.key # NoKey /\ (Required(f.node) = <<>> \/ Ready(b, f.node))

Execute(b, f) == Required(f.node) = <<>> \/ Ready(b, f.node)

\* faulty variant: the early return of a node that is not ready keeps the lock
UnlockedIfExecute(t, execute) == IF execute THEN 0 ELSE t

\* self.lock after the "with self.lock" block is left, by its end or by its return
Unlocked(t, execute) == 0

\* the body of "with self.lock": store, decide, build the input, release
Decide(t) ==
    /\ Active(t)
    /\ Top(t).pc = "locked"
    /\ lock = t
    /\ LET f == Top(t)
           n == f.node
           b == Store(buf, f)
           got == IF f.key # NoKey THEN since[n] \cup {f.key} ELSE since[n]
       IN  /\ buf' = b
           /\ lock' = Unlocked(t, Execute(b, f))
           /\ fresh' = IF f.key # NoKey THEN [fresh EXCEPT ![n] = TRUE] ELSE fresh
           /\ IF Execute(b, f)
              THEN /\ thr' = [thr EXCEPT ![t].stack[Len(thr[t].stack)] =
                                [f EXCEPT !.pc = "run", !.inp = RunInputs(b, f),
                                          !.snap = got]]
                   /\ since' = [since EXCEPT ![n] = {}]
                   /\ UNCHANGED <<mpc, fi, completed>>
              ELSE /\ Advance(t, Below(t))
                   /\ since' = [since EXCEPT ![n] = got]
    /\ UNCHANGED <<pipe, input, nruns, runlog, raised, finalized, delivered>>

\* result = node.run(run_inputs if required else None)
RunArg(f) == IF Required(f.node) # <<>> THEN f.inp ELSE NoInput

\* faulty variant: the buffer is cleared when run raises too (a "finally" clear)
RunNodeClearing(t) ==
    /\ Active(t)
    /\ Top(t).pc = "run"
    /\ LET f == Top(t)
           r == RunResult(f.node, RunArg(f))
       IN  /\ nruns' = [nruns EXCEPT ![f.node] = @ + 1]
           /\ runlog' = runlog \cup {[node |-> f.node, arg |-> RunArg(f), key |-> f.key,
                                      phase |-> Phase, seq |-> nruns[f.node] + 1]}
           /\ IF r.kind = "raise"
              THEN /\ Throw(t)
                   /\ raised' = raised \cup {f.node}
                   /\ buf' = [buf EXCEPT ![f.node] = EmptyBuffer]
              ELSE /\ thr' = [thr EXCEPT ![t].stack[Len(thr[t].stack)] =
                                [f EXCEPT !.pc = "clear", !.res = r]]
                   /\ UNCHANGED <<mpc, fi, completed, raised, buf>>
    /\ UNCHANGED <<pipe, input, lock, since, fresh, finalized, delivered>>

RunNode(t) ==
    /\ Active(t)
    /\ Top(t).pc = "run"
    /\ LET f == Top(t)
           r == RunResult(f.node, RunArg(f))
       IN  /\ nruns' = [nruns EXCEPT ![f.node] = @ + 1]
           /\ runlog' = runlog \cup {[node |-> f.node, arg |-> RunArg(f), key |-> f.key,
                                      phase |-> Phase, seq |-> nruns[f.node] + 1]}
           /\ IF r.kind = "raise"
              THEN /\ Throw(t)
                   /\ raised' = raised \cup {f.node}
              ELSE /\ thr' = [thr EXCEPT ![t].stack[Len(thr[t].stack)] =
                                [f EXCEPT !.pc = "clear", !.res = r]]
                   /\ UNCHANGED <<mpc, fi, completed, raised>>
    /\ UNCHANGED <<pipe, input, lock, buf, since, fresh, finalized, delivered>>

\* faulty variant: only the required keys are removed
ClearedRequiredOnly(b, n) ==
    [b EXCEPT ![n] = [k \in Keys |-> IF k \in Range(Required(n)) THEN Absent ELSE @[k]]]

\* node_input_buffer[node.name].clear()
Cleared(b, n) == [b EXCEPT ![n] = EmptyBuffer]

\* the clear, then "if result is None: return" or the start of the propagation loop
Clear(t) ==
    /\ Active(t)
    /\ Top(t).pc = "clear"
    /\ LET f == Top(t) IN
        /\ buf' = Cleared(buf, f.node)
        /\ fresh' = [fresh EXCEPT ![f.node] = FALSE]
        /\ IF f.res.kind = "none"
           THEN Advance(t, Below(t))
           ELSE Advance(t, Below(t) \o
                    << [f EXCEPT !.pc = "prop", !.ci = 1, !.ii = 1, !.clr = TRUE] >>)
    /\ UNCHANGED <<pipe, input, lock, since, nruns, runlog, raised, finalized, delivered>>

\* faulty variant: one pair per child (the i-th pair to the i-th child)
NextPosZip(f) == [ci |-> f.ci + 1, ii |-> IF f.ii < Len(f.res.items) THEN f.ii + 1 ELSE 1]

\* the loop position after the delivery at (ci, ii) of a mapping result
NextPos(f) ==
    IF f.ii < Len(f.res.items) THEN [ci |-> f.ci, ii |-> f.ii + 1]
    ELSE [ci |-> f.ci + 1, ii |-> 1]

\* self.run_node(output_node, k, v) / self.run_node(output_node, None, result), inline
Propagate(t) ==
    /\ Active(t)
    /\ Top(t).pc = "prop"
    /\ Top(t).res.kind \in {"map", "bare"}
    /\ LET f == Top(t)
           child == pipe.outputs[f.node][f.ci]
           k == IF f.res.kind = "map" THEN f.res.items[f.ii][1] ELSE NoKey
           v == IF f.res.kind = "map" THEN f.res.items[f.ii][2] ELSE f.res.v
           pos == IF f.res.kind = "map" THEN NextPos(f) ELSE [ci |-> f.ci + 1, ii |-> 1]
           g == [f EXCEPT !.ci = pos.ci, !.ii = pos.ii,
                          !.sent = Append(@, <<child, k, v>>)]
       IN  /\ thr' = [thr EXCEPT ![t].stack = Below(t) \o << g, Call(child, k, v) >>]
           /\ delivered' = [delivered EXCEPT ![child] = @ + 1]
    /\ UNCHANGED <<pipe, input, lock, buf, mpc, fi, since, fresh, nruns, runlog, raised,
                   completed, finalized>>

\* with ThreadPoolExecutor(max_workers) as executor: executor.submit(...) per item
Submit(t) ==
    /\ Active(t)
    /\ Top(t).pc = "prop"
    /\ Top(t).res.kind = "list"
    /\ LET f == Top(t)
           child == pipe.outputs[f.node][f.ci]
           p == Len(f.res.items)
           ids == {Len(thr) + i : i \in 1..p}
           new == [i \in 1..p |->
                     Thread("job", << Call(child, f.res.items[i][1], f.res.items[i][2]) >>,
                            IF i <= max_workers THEN "run" ELSE "queued", t)]
           g == [f EXCEPT !.pc = "wait", !.jobs = ids,
                          !.sent = @ \o [i \in 1..p |->
                                    <<child, f.res.items[i][1], f.res.items[i][2]>>]]
       IN  /\ thr' = [thr EXCEPT ![t].stack[Len(thr[t].stack)] = g] \o new
           /\ delivered' = [delivered EXCEPT ![child] = @ + p]
    /\ UNCHANGED <<pipe, input, lock, buf, mpc, fi, since, fresh, nruns, runlog, raised,
                   completed, finalized>>

\* faulty variant: the executor is left without waiting for its jobs
AwaitNoWait(t) ==
    /\ Active(t)
    /\ Top(t).pc = "wait"
    /\ Advance(t, Below(t) \o
            << [Top(t) EXCEPT !.pc = "prop", !.ci = @ + 1, !.jobs = {}] >>)
    /\ UNCHANGED <<pipe, input, lock, buf, since, fresh, nruns, runlog, raised, finalized, delivered>>

\* leaving the "with" block: executor.shutdown(wait=True)
Await(t) ==
    /\ Active(t)
    /\ Top(t).pc = "wait"
    /\ \A j \in Top(t).jobs : thr[j].st \in {"done", "dead"}
    /\ Advance(t, Below(t) \o
            << [Top(t) EXCEPT !.pc = "prop", !.ci = @ + 1, !.jobs = {}] >>)
    /\ UNCHANGED <<pipe, input, lock, buf, since, fresh, nruns, runlog, raised, finalized, delivered>>

----------------------------------------------------------------------------
(* PipelineEngine.run: the finalize phase *)

\* faulty variant: the nodes are visited from the last one registered to the first
NodeValuesReversed(p) == [i \in 1..Len(p.nodes) |-> p.nodes[Len(p.nodes) + 1 - i]]

\* self.nodes.values(): the nodes in the order add_node registered them
NodeValues(p) == p.nodes

Finalize ==
    /\ mpc = "fin"
    /\ fi <= Len(pipe.nodes)
    /\ LET n == NodeValues(pipe)[fi]
           out == FinalizeResult(n)
       IN  /\ finalized' = IF HasFinalize(n) THEN Append(finalized, n) ELSE finalized
           /\ IF ~HasFinalize(n)
              THEN /\ fi' = fi + 1
                   /\ UNCHANGED <<thr, mpc, raised, completed>>
              ELSE IF out.kind = "raise"
              THEN /\ mpc' = "raised"
                   /\ raised' = raised \cup {n}
                   /\ UNCHANGED <<thr, fi, completed>>
              ELSE IF Truthy(out)
              THEN /\ thr' = [thr EXCEPT ![1].stack = Settle(<< FinalCall(n, out) >>)]
                   /\ completed' = completed \cup Popped(<< FinalCall(n, out) >>)
                   /\ mpc' = IF Settle(<< FinalCall(n, out) >>) = <<>> THEN "fin"
                             ELSE "finprop"
                   /\ fi' = IF Settle(<< FinalCall(n, out) >>) = <<>> THEN fi + 1 ELSE fi
                   /\ UNCHANGED raised
              ELSE /\ fi' = fi + 1
                   /\ UNCHANGED <<thr, mpc, raised, completed>>
    /\ UNCHANGED <<pipe, input, lock, buf, since, fresh, nruns, runlog, delivered>>

\* "[RUN_COMPLETE]": run() returns to its caller
Complete ==
    /\ mpc = "fin"
    /\ fi > Len(pipe.nodes)
    /\ mpc' = "complete"
    /\ UNCHANGED <<pipe, input, thr, lock, buf, fi, since, fresh, nruns, runlog, raised,
                   completed, finalized, delivered>>

----------------------------------------------------------------------------
(* Type descriptors and PipelineLoader.are_types_compatible *)

MaxDepth == 2      \* nesting depth of the generic type descriptors

NoType == [kind |-> "None", args |-> <<>>]         \* getattr(node, "..._type", None)
AnyType == [kind |-> "Any", args |-> <<>>]         \* typing.Any
Simple(k) == [kind |-> k, args |-> <<>>]           \* int, str
Generic(k, args) == [kind |-> k, args |-> args]    \* List[...], Set[...], Dict[..., ...]

GenericKinds == {"list", "set", "dict"}

\* typing.get_origin / typing.get_args
get_origin(t) == IF t.kind \in GenericKinds THEN t.kind ELSE NoneV
get_args(t) == t.args

\* zip(args_out, args_in) stops at the shorter of the two
Zip(a, b) == [i \in 1..(IF Len(a) < Len(b) THEN Len(a) ELSE Len(b)) |-> <<a[i], b[i]>>]

\* faulty variant: the last rule compares the outer kinds only
are_types_compatible_outer(output_type_, input_type_) ==
    IF input_type_ = AnyType \/ output_type_ = AnyType THEN TRUE
    ELSE IF output_type_ = NoType \/ input_type_ = NoType THEN TRUE
    ELSE IF output_type_ = input_type_ THEN TRUE
    ELSE get_origin(output_type_) # NoneV /\ get_origin(output_type_) = get_origin(input_type_)

are_types_compatible(output_type_, input_type_) ==
    IF input_type_ = AnyType \/ output_type_ = AnyType THEN TRUE
    ELSE IF output_type_ = NoType \/ input_type_ = NoType THEN TRUE
    ELSE IF output_type_ = input_type_ THEN TRUE
    ELSE IF get_origin(output_type_) # NoneV
            /\ get_origin(output_type_) = get_origin(input_type_)
         THEN LET z == Zip(get_args(output_type_), get_args(input_type_))
              IN  \A i \in DOMAIN z :
                      z[i][1] = z[i][2] \/ z[i][2] = AnyType \/ z[i][1] = AnyType
         ELSE FALSE

\* declared types: int, str, Any and List[...] / Set[...] nested up to depth d
RECURSIVE TypesUpTo(_)
TypesUpTo(d) ==
    IF d = 0 THEN {Simple("int"), Simple("str"), AnyType}
    ELSE TypesUpTo(0) \cup {Generic(k, <<a>>) : k \in {"list", "set"}, a \in TypesUpTo(d - 1)}

Declared == TypesUpTo(MaxDepth) \cup {NoType}

TypesInit ==
    /\ output_type \in Declared
    /\ input_type \in Declared
    /\ compatible = FALSE
    /\ tpc = "edge"

TypesIdle ==
    /\ output_type = NoType
    /\ input_type = NoType
    /\ compatible = FALSE
    /\ tpc = "idle"

\* self.are_types_compatible(output_type, input_type) for one edge
CheckTypes ==
    /\ tpc = "edge"
    /\ compatible' = are_types_compatible(output_type, input_type)
    /\ tpc' = "checked"
    /\ UNCHANGED <<output_type, input_type>>

----------------------------------------------------------------------------
(* NodesRegistry.get_node_class and the node classes of src.modulos *)

MaxCalls == 3      \* get_node_class calls made on one registry

\* NODE_MODULES after discover_node_modules: the names of the Node subclasses found.
\* DummyStartNode and LLMNode are classes of src.modulos; the other three stand for
\* classes that declare an output_type or an input_type
NODE_MODULES == {"DummyStartNode", "LLMNode", "IntListSource", "StrListSink", "AnyListSink"}

\* node types a document may name: the discovered ones and one nobody defines
TypeNames == NODE_MODULES \cup {"Ghost"}

NoClass == [kind |-> "None", name |-> ""]          \* NODE_CLASSES.get(node_type) is None

\* getattr(module, node_type): discovery only records names bound to classes
ModuleAttr(node_type) == [kind |-> "class", name |-> node_type]

\* isinstance(cls, type)
IsClass(cls) == cls.kind = "class"

\* getattr(node, "output_type", None) for an instance of the class
output_type_of(name) ==
    CASE name = "LLMNode" -> Generic("dict", <<Simple("str"), AnyType>>)
      [] name = "IntListSource" -> Generic("list", <<Simple("int")>>)
      [] OTHER -> NoType

\* getattr(output_node, "input_type", None) for an instance of the class
input_type_of(name) ==
    CASE name = "StrListSink" -> Generic("list", <<Simple("str")>>)
      [] name = "AnyListSink" -> Generic("list", <<AnyType>>)
      [] OTHER -> NoType

Raised(kind) == [kind |-> kind, producer |-> "", consumer |-> "",
                 output_type |-> NoType, input_type |-> NoType]
NoError == Raised("None")

\* faulty variant: the cache is not consulted and not filled
get_node_class_uncached(cache, node_type) ==
    IF node_type \notin NODE_MODULES
    THEN [ok |-> FALSE, err |-> "ValueError", cls |-> NoClass, cache |-> cache]
    ELSE [ok |-> TRUE, err |-> "None", cls |-> ModuleAttr(node_type), cache |-> cache]

\* get_node_class(node_type) on the cache; cache is NODE_CLASSES afterwards
get_node_class(cache, node_type) ==
    IF cache[node_type] # NoClass /\ IsClass(cache[node_type])
    THEN [ok |-> TRUE, err |-> "None", cls |-> cache[node_type], cache |-> cache]
    ELSE IF node_type \notin NODE_MODULES
    THEN [ok |-> FALSE, err |-> "ValueError", cls |-> NoClass, cache |-> cache]
    ELSE IF ~IsClass(ModuleAttr(node_type))
    THEN [ok |-> FALSE, err |-> "TypeError", cls |-> NoClass, cache |-> cache]
    ELSE [ok |-> TRUE, err |-> "None", cls |-> ModuleAttr(node_type),
          cache |-> [cache EXCEPT ![node_type] = ModuleAttr(node_type)]]

\* the record of one call, kept in calls
CallOf(node_type, before, r) ==
    [name |-> node_type, ok |-> r.ok, err |-> r.err, cls |-> r.cls,
     before |-> before, after |-> r.cache]

RegistryInit ==
    /\ NODE_CLASSES = [n \in TypeNames |-> NoClass]
    /\ calls = <<>>

\* one get_node_class(node_type) call of some importer of the registry
GetNodeClass ==
    /\ Len(calls) < MaxCalls
    /\ \E node_type \in TypeNames :
          LET r == get_node_class(NODE_CLASSES, node_type)
          IN  /\ NODE_CLASSES' = r.cache
              /\ calls' = Append(calls, CallOf(node_type, NODE_CLASSES, r))
    /\ UNCHANGED <<doc, node_map, outputs, inputs, wpc, wi, wj, types, werr>>

----------------------------------------------------------------------------
(* Node.add_input / Node.add_output and the wiring loop of instantiate_nodes *)

MaxNodes == 2      \* node entries of a document
MaxOutputs == 2    \* names listed in one entry's outputs

DocNames == {"A", "B"}

SeqsUpTo(S, n) == UNION {[1..k -> S] : k \in 0..n}

NodeConf == [name : DocNames, outputs : SeqsUpTo(DocNames, MaxOutputs)]

Docs == UNION {[1..k -> NodeConf] : k \in 1..MaxNodes}

\* if node not in self.inputs: self.inputs.append(node)
add_input(i, self, node) ==
    IF node \in Range(i[self]) THEN i ELSE [i EXCEPT ![self] = Append(@, node)]

\* faulty variant: the edge is appended without registering the reverse direction
add_output_one_sided(o, i, self, node) ==
    IF node \in Range(o[self])
    THEN [outputs |-> o, inputs |-> i]
    ELSE [outputs |-> [o EXCEPT ![self] = Append(@, node)], inputs |-> i]

\* if node not in self.outputs: self.outputs.append(node); node.add_input(self)
add_output(o, i, self, node) ==
    IF node \in Range(o[self])
    THEN [outputs |-> o, inputs |-> i]
    ELSE [outputs |-> [o EXCEPT ![self] = Append(@, node)],
          inputs |-> add_input(i, node, self)]

\* instantiate_nodes is entered with the node entries d, whose types are ty
WireStart(d, ty) ==
    /\ doc = d
    /\ types = ty
    /\ node_map = [n \in DocNames |-> 0]
    /\ outputs = [x \in DOMAIN d |-> <<>>]
    /\ inputs = [x \in DOMAIN d |-> <<>>]
    /\ wpc = "create"
    /\ wi = 1
    /\ wj = 1
    /\ werr = NoError
    /\ RegistryInit

\* the wiring of documents whose nodes are of a class without declared types
WireInit == \E d \in Docs : WireStart(d, [x \in DOMAIN d |-> "DummyStartNode"])

WireIdle ==
    /\ doc = <<>>
    /\ node_map = [n \in DocNames |-> 0]
    /\ outputs = <<>>
    /\ inputs = <<>>
    /\ wpc = "idle"
    /\ wi = 0
    /\ wj = 0
    /\ types = <<>>
    /\ werr = NoError
    /\ RegistryInit

\* "Crear nodos": cls = get_node_class(node_type) (a ValueError is raised again);
\* node = cls(name, ...); node_map[node.name] = node
CreateNode ==
    /\ wpc = "create"
    /\ LET r == get_node_class(NODE_CLASSES, types[wi])
       IN  /\ NODE_CLASSES' = r.cache
           /\ calls' = Append(calls, CallOf(types[wi], NODE_CLASSES, r))
           /\ IF ~r.ok
              THEN /\ wpc' = "error"
                   /\ werr' = Raised(r.err)
                   /\ UNCHANGED <<node_map, wi>>
              ELSE /\ node_map' = [node_map EXCEPT ![doc[wi].name] = wi]
                   /\ werr' = werr
                   /\ IF wi < Len(doc)
                      THEN wi' = wi + 1 /\ wpc' = wpc
                      ELSE wi' = 1 /\ wpc' = "connect"
    /\ UNCHANGED <<doc, outputs, inputs, wj, types>>

\* faulty variant: the message names the consumer twice
EdgeTypeErrorOneName(node, output_node) ==
    [kind |-> "TypeError", producer |-> doc[output_node].name,
     consumer |-> doc[output_node].name,
     output_type |-> output_type_of(types[node]),
     input_type |-> input_type_of(types[output_node])]

\* the TypeError of the edge check: both node names and both types
EdgeTypeError(node, output_node) ==
    [kind |-> "TypeError", producer |-> doc[node].name, consumer |-> doc[output_node].name,
     output_type |-> output_type_of(types[node]),
     input_type |-> input_type_of(types[output_node])]

\* "Conectar nodos": node.add_output(node_map[output_name]) for the next listed name
\* (an unknown name is a KeyError), then the type check of the edge
Connect ==
    /\ wpc = "connect"
    /\ wj <= Len(doc[wi].outputs)
    /\ LET node == node_map[doc[wi].name]
           output_node == node_map[doc[wi].outputs[wj]]
           w == add_output(outputs, inputs, node, output_node)
       IN  IF output_node = 0
           THEN /\ wpc' = "error"
                /\ werr' = Raised("KeyError")
                /\ UNCHANGED <<outputs, inputs, wj>>
           ELSE /\ outputs' = w.outputs
                /\ inputs' = w.inputs
                /\ IF are_types_compatible(output_type_of(types[node]),
                                           input_type_of(types[output_node]))
                   THEN wj' = wj + 1 /\ wpc' = wpc /\ werr' = werr
                   ELSE wj' = wj /\ wpc' = "error"
                        /\ werr' = EdgeTypeError(node, output_node)
    /\ UNCHANGED <<doc, node_map, wi, types, NODE_CLASSES, calls>>

\* the outputs of an entry are exhausted: next entry, or return engine, node_map
NextEntry ==
    /\ wpc = "connect"
    /\ wj > Len(doc[wi].outputs)
    /\ IF wi < Len(doc)
       THEN wi' = wi + 1 /\ wj' = 1 /\ wpc' = wpc
       ELSE wpc' = "done" /\ UNCHANGED <<wi, wj>>
    /\ UNCHANGED <<doc, node_map, outputs, inputs, types, NODE_CLASSES, calls, werr>>

----------------------------------------------------------------------------
(* PipelineLoader.resolve_env_vars *)

MaxPieces == 3     \* pieces a string of the document is made of

WordChars == {"A", "B"}

Pieces == {<<"$">>, <<"{">>, <<"}">>, <<"A">>, <<"$", "{", "A", "}">>,
           <<"$", "{", "B", "}">>}

RECURSIVE Concat(_)
Concat(ps) == IF ps = <<>> THEN <<>> ELSE Head(ps) \o Concat(Tail(ps))

Strings == {Concat(ps) : ps \in SeqsUpTo(Pieces, MaxPieces)}

EnvNames == {<<"A">>, <<"B">>}

EnvValues == {<<>>, <<"A">>, <<"$", "{", "B", "}">>}

\* os.environ: a name is defined with a value, or not defined
Environments == [EnvNames -> [def : BOOLEAN, val : EnvValues]]

\* os.environ.get(var)
Defined(e, var) == var \in DOMAIN e /\ e[var].def

\* parsed YAML values
Str(s) == [t |-> "str", s |-> s, items |-> <<>>]
Num == [t |-> "int", s |-> <<>>, items |-> <<>>]
List(items) == [t |-> "list", s |-> <<>>, items |-> items]
Dict(items) == [t |-> "dict", s |-> <<>>, items |-> items]

\* documents: a string as a scalar, a list element, a mapping value, and nested
Documents ==
    UNION {{Str(s),
            List(<<Num, Str(s)>>),
            Dict(<< <<"${A}", Dict(<< <<"key", List(<<Str(s), Str(<<"A">>)>>)>> >>)>> >>)}
           : s \in Strings}

\* where the match of \$\{(\w+)\} that starts at i ends (0: no match at i)
TokenEnd(s, i) ==
    IF i + 3 <= Len(s) /\ s[i] = "$" /\ s[i + 1] = "{" /\ s[i + 2] \in WordChars
    THEN LET stop == {j \in (i + 3)..Len(s) : s[j] \notin WordChars}
         IN  IF stop # {} /\ s[Min(stop)] = "}" THEN Min(stop) ELSE 0
    ELSE 0

\* faulty variant: only the first match (re.search) is taken
RECURSIVE FindFirst(_, _)
FindFirst(s, i) ==
    IF i > Len(s) THEN <<>>
    ELSE IF TokenEnd(s, i) > 0
         THEN << SubSeq(s, i + 2, TokenEnd(s, i) - 1) >>
         ELSE FindFirst(s, i + 1)

\* re.findall(r"\$\{(\w+)\}", obj) from position i on
RECURSIVE FindAll(_, _)
FindAll(s, i) ==
    IF i > Len(s) THEN <<>>
    ELSE IF TokenEnd(s, i) > 0
         THEN << SubSeq(s, i + 2, TokenEnd(s, i) - 1) >> \o FindAll(s, TokenEnd(s, i) + 1)
         ELSE FindAll(s, i + 1)

\* str.replace(old, new)
RECURSIVE Replace(_, _, _)
Replace(s, old, new) ==
    IF Len(s) < Len(old) THEN s
    ELSE IF SubSeq(s, 1, Len(old)) = old
         THEN new \o Replace(SubSeq(s, Len(old) + 1, Len(s)), old, new)
         ELSE << s[1] >> \o Replace(Tail(s), old, new)

\* f"${{{var}}}"
Token(var) == <<"$", "{">> \o var \o <<"}">>

\* for var in matches: a missing variable raises, else obj = obj.replace(token, value)
RECURSIVE Substitute(_, _, _)
Substitute(s, matches, e) ==
    IF matches = <<>> THEN [ok |-> TRUE, val |-> Str(s)]
    ELSE IF ~Defined(e, Head(matches)) THEN [ok |-> FALSE, val |-> Str(s)]
    ELSE Substitute(Replace(s, Token(Head(matches)), e[Head(matches)].val),
                    Tail(matches), e)

\* resolve_env_vars(obj): ok is FALSE when the ValueError was raised
RECURSIVE resolve_env_vars(_, _)
resolve_env_vars(obj, e) ==
    CASE obj.t = "dict" ->
            LET r == [i \in DOMAIN obj.items |-> resolve_env_vars(obj.items[i][2], e)]
            IN  [ok |-> \A i \in DOMAIN r : r[i].ok,
                 val |-> Dict([i \in DOMAIN r |-> <<obj.items[i][1], r[i].val>>])]
      [] obj.t = "list" ->
            LET r == [i \in DOMAIN obj.items |-> resolve_env_vars(obj.items[i], e)]
            IN  [ok |-> \A i \in DOMAIN r : r[i].ok,
                 val |-> List([i \in DOMAIN r |-> r[i].val])]
      [] obj.t = "str" -> Substitute(obj.s, FindAll(obj.s, 1), e)
      [] OTHER -> [ok |-> TRUE, val |-> obj]

EnvInit ==
    /\ cfg \in Documents
    /\ env \in Environments
    /\ expanded = Num
    /\ epc = "parsed"

EnvIdle ==
    /\ cfg = Num
    /\ env = [n \in EnvNames |-> [def |-> FALSE, val |-> <<>>]]
    /\ expanded = Num
    /\ epc = "idle"

\* config = self.resolve_env_vars(config)
ResolveEnvVars ==
    /\ epc = "parsed"
    /\ LET r == resolve_env_vars(cfg, env)
       IN  IF r.ok
           THEN expanded' = r.val /\ epc' = "expanded"
           ELSE expanded' = expanded /\ epc' = "error"
    /\ UNCHANGED <<cfg, env>>

----------------------------------------------------------------------------
(* PipelineLoader.build_pipeline_from_yaml *)

\* the statements of build_pipeline_from_yaml in program order
NextPhaseSchemaFirst(p) ==
    CASE p = "parsed" -> "schema"
      [] p = "schema" -> "expand"
      [] p = "expand" -> "instantiate"
      [] p = "instantiate" -> "entrypoint"
      [] p = "entrypoint" -> "name"
      [] OTHER -> "returned"

NextPhase(p) ==
    CASE p = "parsed" -> "expand"
      [] p = "expand" -> "schema"
      [] p = "schema" -> "instantiate"
      [] p = "instantiate" -> "entrypoint"
      [] p = "entrypoint" -> "name"
      [] OTHER -> "returned"

\* node entries of the documents built: each entry with its type
Entry(name, type, outs) == [conf |-> [name |-> name, outputs |-> outs], type |-> type]

BuildNodes ==
    {<< Entry("A", "IntListSource", <<"B">>), Entry("B", "StrListSink", <<>>) >>,
     << Entry("A", "IntListSource", <<"B">>), Entry("B", "AnyListSink", <<>>) >>,
     << Entry("A", "DummyStartNode", <<"B">>), Entry("B", "StrListSink", <<>>) >>,
     << Entry("A", "LLMNode", <<"B", "B">>), Entry("B", "DummyStartNode", <<"A">>) >>,
     << Entry("A", "LLMNode", <<"B">>), Entry("B", "StrListSink", <<>>) >>,
     << Entry("A", "DummyStartNode", <<>>), Entry("B", "Ghost", <<>>) >>,
     << Entry("A", "DummyStartNode", <<"B">>) >>,
     << Entry("A", "DummyStartNode", <<>>), Entry("A", "DummyStartNode", <<>>) >>}

BuildNames == {Absent, "", "ventas"}            \* pipeline.name
BuildEntrypoints == {Absent, "", "A", "B"}      \* pipeline.entrypoint

\* a string of the document outside name, entrypoint and the node entries
BuildTexts == {Dict(<< <<"path", Str(<<"$", "{", "A", "}", "A">>)>> >>), Str(<<"A">>)}

BuildEnvs == {e \in Environments : ~e[<<"B">>].def /\ e[<<"B">>].val = <<>>
                                   /\ e[<<"A">>].val = <<"A">>}

NoFailure == [phase |-> "None", kind |-> "None"]

\* the phase returned: the next statement is reached
Passed(b, phase) == [b EXCEPT !.pc = NextPhase(phase), !.ran = Append(@, phase)]

\* the phase raised: the exception leaves build_pipeline_from_yaml
Failed(b, phase, kind) ==
    [b EXCEPT !.pc = "failed", !.ran = Append(@, phase),
              !.err = [phase |-> phase, kind |-> kind]]

BuildInit ==
    /\ \E name \in BuildNames : \E entrypoint \in BuildEntrypoints :
          build = [name |-> name, entrypoint |-> entrypoint, pc |-> NextPhase("parsed"),
                   err |-> NoFailure, ran |-> <<>>]
    /\ \E n \in BuildNodes :
          WireStart([i \in DOMAIN n |-> n[i].conf], [i \in DOMAIN n |-> n[i].type])
    /\ cfg \in BuildTexts
    /\ env \in BuildEnvs
    /\ expanded = Num
    /\ epc = "parsed"

BuildIdle ==
    build = [name |-> Absent, entrypoint |-> Absent, pc |-> "idle",
             err |-> NoFailure, ran |-> <<>>]

\* config = self.resolve_env_vars(config)
Expand ==
    /\ build.pc = "expand"
    /\ ResolveEnvVars
    /\ build' = IF epc' = "expanded" THEN Passed(build, "expand")
                ELSE Failed(build, "expand", "ValueError")

\* Validator(pipeline_schema).validate(config): name and entrypoint are required
SchemaOk(b) == b.name # Absent /\ b.entrypoint # Absent

\* self.validate_pipeline_schema(config)
Validate ==
    /\ build.pc = "schema"
    /\ build' = IF SchemaOk(build) THEN Passed(build, "schema")
                ELSE Failed(build, "schema", "ValueError")

\* engine, node_map = self.instantiate_nodes(config["pipeline"]) returned or raised
Instantiated ==
    /\ build.pc = "instantiate"
    /\ wpc \in {"done", "error"}
    /\ build' = IF wpc = "done" THEN Passed(build, "instantiate")
                ELSE Failed(build, "instantiate", werr.kind)

\* faulty variant: only "not entrypoint" is tested
EntrypointMissingEmptyOnly(entrypoint, nm) == entrypoint \in {Absent, ""}

\* not entrypoint or entrypoint not in node_map
EntrypointMissing(entrypoint, nm) ==
    \/ entrypoint \in {Absent, ""}
    \/ entrypoint \notin DOMAIN nm
    \/ nm[entrypoint] = 0

\* if not entrypoint or entrypoint not in node_map: raise ValueError
CheckEntrypoint ==
    /\ build.pc = "entrypoint"
    /\ build' = IF EntrypointMissing(build.entrypoint, node_map)
                THEN Failed(build, "entrypoint", "ValueError")
                ELSE Passed(build, "entrypoint")

\* if not name: raise ValueError; return engine, entrypoint, name
CheckName ==
    /\ build.pc = "name"
    /\ build' = IF build.name \in {Absent, ""}
                THEN Failed(build, "name", "ValueError")
                ELSE Passed(build, "name")

----------------------------------------------------------------------------
(* APIReaderNode.run *)

MaxResponses == 2  \* responses the API server has ready for one run call

\* what requests.get returns: status_code, the Retry-After header (0: absent) and
\* whether response.json() holds rows; status 0 stands for requests.get raising
Responses ==
    [status : {200, 429, 0}, retry_after : {0, 1, 2}, rows : BOOLEAN]

\* self.config.get("selected", [])
Selections == {<<>>, <<"a">>}

\* int(response.headers.get("Retry-After", 1))
retry_after(response) == IF response.retry_after = 0 THEN 1 ELSE response.retry_after

\* the value of run for a response that is not a 429: {salida: DataFrame} of the
\* selected or of all columns, None when the body is empty
Frame(response, selected) ==
    IF ~response.rows THEN "None"
    ELSE IF selected # <<>> THEN "{data: selected}" ELSE "{data: all}"

ApiInit ==
    \E rs \in UNION {[1..k -> Responses] : k \in 1..MaxResponses} :
       \E selected \in Selections :
          api = [responses |-> rs, selected |-> selected, pc |-> "get", gets |-> 0,
                 slept |-> 0, wait |-> 0, result |-> "None", err |-> "None"]

ApiIdle ==
    api = [responses |-> <<>>, selected |-> <<>>, pc |-> "idle", gets |-> 0,
           slept |-> 0, wait |-> 0, result |-> "None", err |-> "None"]

\* response = requests.get(...), then the branch on status_code
Get ==
    /\ api.pc = "get"
    /\ LET response == api.responses[api.gets + 1]
           a == [api EXCEPT !.gets = @ + 1]
       IN  api' = CASE response.status = 0 ->
                         [a EXCEPT !.pc = "raised", !.err = "Exception"]
                    [] response.status = 429 ->
                         [a EXCEPT !.pc = "retry", !.wait = retry_after(response)]
                    [] OTHER ->
                         [a EXCEPT !.pc = "returned",
                                   !.result = Frame(response, api.selected)]

\* time.sleep(retry_after); return APIReaderNode.run(): the call on the class has no
\* self, Python raises TypeError, "except Exception" logs it and raises it again
Retry ==
    /\ api.pc = "retry"
    /\ api' = [api EXCEPT !.slept = @ + api.wait, !.pc = "raised", !.err = "TypeError"]

----------------------------------------------------------------------------
(* Specifications *)

EngineIdle ==
    /\ pipe = Pipe(<<>>, NoOut, "None")
    /\ input = NoInput
    /\ thr = <<>>
    /\ lock = 0
    /\ buf = [n \in NodeNames |-> EmptyBuffer]
    /\ mpc = "idle"
    /\ fi = 0
    /\ since = [n \in NodeNames |-> {}]
    /\ fresh = [n \in NodeNames |-> FALSE]
    /\ nruns = [n \in NodeNames |-> 0]
    /\ runlog = {}
    /\ raised = {}
    /\ completed = {}
    /\ finalized = <<>>
    /\ delivered = [n \in NodeNames |-> 0]

\* one engine.run(entry, input_data) on a loaded pipeline
Init == EngineInit /\ WireIdle /\ EnvIdle /\ BuildIdle /\ TypesIdle /\ ApiIdle
Next ==
    \/ Start /\ UNCHANGED <<wireVars, envVars, buildVars, typeVars, apiVars>>
    \/ Join /\ UNCHANGED <<wireVars, envVars, buildVars, typeVars, apiVars>>
    \/ Finalize /\ UNCHANGED <<wireVars, envVars, buildVars, typeVars, apiVars>>
    \/ Complete /\ UNCHANGED <<wireVars, envVars, buildVars, typeVars, apiVars>>
    \/ \E t \in Threads : Acquire(t) /\ UNCHANGED <<wireVars, envVars, buildVars, typeVars, apiVars>>
    \/ \E t \in Threads : Decide(t) /\ UNCHANGED <<wireVars, envVars, buildVars, typeVars, apiVars>>
    \/ \E t \in Threads : RunNode(t) /\ UNCHANGED <<wireVars, envVars, buildVars, typeVars, apiVars>>
    \/ \E t \in Threads : Clear(t) /\ UNCHANGED <<wireVars, envVars, buildVars, typeVars, apiVars>>
    \/ \E t \in Threads : Propagate(t) /\ UNCHANGED <<wireVars, envVars, buildVars, typeVars, apiVars>>
    \/ \E t \in Threads : Submit(t) /\ UNCHANGED <<wireVars, envVars, buildVars, typeVars, apiVars>>
    \/ \E t \in Threads : Await(t) /\ UNCHANGED <<wireVars, envVars, buildVars, typeVars, apiVars>>
Spec == Init /\ [][Next]_vars

\* the same run with the threads scheduled: a step that can be taken is taken
SpecLive == Init /\ [][Next]_vars /\ WF_vars(Next)

\* the wiring of one document by instantiate_nodes
InitWire == WireInit /\ EngineIdle /\ EnvIdle /\ BuildIdle /\ TypesIdle /\ ApiIdle
NextWire ==
    \/ CreateNode /\ UNCHANGED <<engineVars, envVars, buildVars, typeVars, apiVars>>
    \/ Connect /\ UNCHANGED <<engineVars, envVars, buildVars, typeVars, apiVars>>
    \/ NextEntry /\ UNCHANGED <<engineVars, envVars, buildVars, typeVars, apiVars>>
SpecWire == InitWire /\ [][NextWire]_vars

\* the variable expansion of one document
InitEnv == EnvInit /\ EngineIdle /\ WireIdle /\ BuildIdle /\ TypesIdle /\ ApiIdle
NextEnv == ResolveEnvVars /\ UNCHANGED <<engineVars, wireVars, buildVars, typeVars, apiVars>>
SpecEnv == InitEnv /\ [][NextEnv]_vars

\* one build_pipeline_from_yaml call
InitBuild == BuildInit /\ EngineIdle /\ TypesIdle /\ ApiIdle
NextBuild ==
    \/ Expand /\ UNCHANGED <<engineVars, wireVars, typeVars, apiVars>>
    \/ Validate /\ UNCHANGED <<engineVars, wireVars, envVars, typeVars, apiVars>>
    \/ build.pc = "instantiate" /\ CreateNode /\ UNCHANGED <<engineVars, envVars, buildVars, typeVars, apiVars>>
    \/ build.pc = "instantiate" /\ Connect /\ UNCHANGED <<engineVars, envVars, buildVars, typeVars, apiVars>>
    \/ build.pc = "instantiate" /\ NextEntry /\ UNCHANGED <<engineVars, envVars, buildVars, typeVars, apiVars>>
    \/ Instantiated /\ UNCHANGED <<engineVars, wireVars, envVars, typeVars, apiVars>>
    \/ CheckEntrypoint /\ UNCHANGED <<engineVars, wireVars, envVars, typeVars, apiVars>>
    \/ CheckName /\ UNCHANGED <<engineVars, wireVars, envVars, typeVars, apiVars>>
SpecBuild == InitBuild /\ [][NextBuild]_vars

\* get_node_class calls on one registry
InitRegistry ==
    /\ WireIdle /\ EngineIdle /\ EnvIdle /\ BuildIdle /\ TypesIdle /\ ApiIdle
NextRegistry == GetNodeClass /\ UNCHANGED <<engineVars, envVars, buildVars, typeVars, apiVars>>
SpecRegistry == InitRegistry /\ [][NextRegistry]_vars

\* the type check of one edge
InitTypes == TypesInit /\ EngineIdle /\ WireIdle /\ EnvIdle /\ BuildIdle /\ ApiIdle
NextTypes == CheckTypes /\ UNCHANGED <<engineVars, wireVars, envVars, buildVars, apiVars>>
SpecTypes == InitTypes /\ [][NextTypes]_vars

\* one APIReaderNode.run call
InitApi == ApiInit /\ EngineIdle /\ WireIdle /\ EnvIdle /\ BuildIdle /\ TypesIdle
NextApi ==
    \/ Get /\ UNCHANGED <<engineVars, wireVars, envVars, buildVars, typeVars>>
    \/ Retry /\ UNCHANGED <<engineVars, wireVars, envVars, buildVars, typeVars>>
SpecApi == InitApi /\ [][NextApi]_vars

----------------------------------------------------------------------------
(* Properties of the execution engine *)

Frames == UNION {{<<t, i>> : i \in DOMAIN thr[t].stack} : t \in Threads}
FrameAt(x) == thr[x[1]].stack[x[2]]

\* activations of n between the readiness decision and the clear of the buffer
InProgress(n) == {x \in Frames : FrameAt(x).node = n /\ FrameAt(x).pc \in {"run", "clear"}}

MainRuns(n) == {r \in runlog : r.node = n /\ r.phase = "main"}

\* C1: an execution of a node with required inputs R starts only when every key of R
\* has been delivered to the node since its previous execution was triggered (or since
\* the engine was created)
Readiness ==
    \A x \in Frames :
        (FrameAt(x).pc = "run" /\ Required(FrameAt(x).node) # <<>>)
            => Range(Required(FrameAt(x).node)) \subseteq FrameAt(x).snap

\* C2: a join node fed by two producers that each emitted one of its two keys once has
\* executed exactly once when the traversal is over, with exactly the two emitted values
Producers(n) == {m \in Range(pipe.nodes) : n \in Range(pipe.outputs[m])}

FanInJoin ==
    (/\ mpc \in {"fin", "complete"}
     /\ Producers("Merge") \in {{"ReadA", "ReadB"}, {"MA", "MB"}}
     /\ \A m \in Producers("Merge") : nruns[m] = 1)
        => /\ nruns["Merge"] = 1
           /\ \A r \in runlog : r.node = "Merge" =>
                 r.arg = MapInput(<< <<"data_1", "X">>, <<"data_2", "Y">> >>)
           /\ \E r \in runlog : r.node = "Merge"

\* C2 witness: the two producers ran on concurrent pool jobs, the second producer's
\* delivery reached the join first, and the join ran once
FanInJoinWitness ==
    /\ mpc = "complete"
    /\ pipe = JoinPipe
    /\ nruns["MA"] = 1 /\ nruns["MB"] = 1 /\ nruns["Merge"] = 1
    /\ \E r \in runlog : r.node = "Merge" /\ r.key = "data_1"

\* C3: once a node's run or finalize has raised, run() neither enters (or stays in) the
\* finalize phase nor completes: it ends by raising
RaiseSurfaces == raised # {} => mpc \notin {"fin", "finprop", "complete"}

\* C4: between the delivery that triggers an execution of a node and the clear of the
\* node's buffer no other delivery triggers an execution of that node
OneRunPerBufferedSet ==
    \A n \in NodeNames : Required(n) # <<>> => Cardinality(InProgress(n)) <= 1

\* C5: every step that reads or writes a node's input buffer (store and decide, clear)
\* is taken by a thread that holds the engine's lock
BufferAccessLocked ==
    \A t \in Threads : (Active(t) /\ Top(t).pc \in {"locked", "clear"}) => lock = t

\* C6: a result is propagated only after the buffer of its node was cleared, and a node
\* that has executed, has no execution in progress and got no key since the clear has
\* an empty buffer
BufferReset ==
    /\ \A x \in Frames :
          (FrameAt(x).pc \in {"prop", "wait"} /\ ~FrameAt(x).fin) => FrameAt(x).clr
    /\ \A n \in NodeNames :
          (nruns[n] > 0 /\ InProgress(n) = {} /\ ~fresh[n]) => buf[n] = EmptyBuffer

\* C6 witness: the join node executed after a key outside required_inputs was stored,
\* and every key is gone
BufferResetWitness ==
    /\ mpc = "complete"
    /\ input = RaceInput
    /\ nruns["Merge"] = 1
    /\ ~fresh["Merge"]
    /\ buf["Merge"] = EmptyBuffer

\* the deliveries of a result to the children: every pair to every child, child by child
Deliveries(n, items) ==
    [j \in 1..(Len(pipe.outputs[n]) * Len(items)) |->
        << pipe.outputs[n][((j - 1) \div Len(items)) + 1],
           items[((j - 1) % Len(items)) + 1][1],
           items[((j - 1) % Len(items)) + 1][2] >>]

IsPrefix(a, b) == Len(a) <= Len(b) /\ a = SubSeq(b, 1, Len(a))

\* C7 (as stated): every mapping result with n keys of a node with m children gets
\* exactly n x m deliveries, each pair once to each child
MappingDispatchAlways ==
    \A c \in completed :
        c.res.kind = "map" =>
            /\ Len(c.sent) = Len(c.res.items) * Len(pipe.outputs[c.node])
            /\ c.sent = Deliveries(c.node, c.res.items)

\* C7 (amended): the same for every mapping result none of whose deliveries raised; a
\* delivery that raises ends the loop, and what was delivered before it was delivered
\* once (a prefix of the n x m deliveries)
MappingDispatch ==
    /\ \A c \in completed :
          (c.res.kind = "map" /\ c.ok) =>
              /\ Len(c.sent) = Len(c.res.items) * Len(pipe.outputs[c.node])
              /\ c.sent = Deliveries(c.node, c.res.items)
    /\ \A c \in completed :
          (c.res.kind = "map" /\ ~c.ok) =>
              /\ IsPrefix(c.sent, Deliveries(c.node, c.res.items))
    /\ \A x \in Frames :
          FrameAt(x).res.kind = "map" =>
              IsPrefix(FrameAt(x).sent, Deliveries(FrameAt(x).node, FrameAt(x).res.items))

\* C7 witness: a result with two keys was delivered to two children, four deliveries
MappingDispatchWitness ==
    \E c \in completed :
        /\ c.ok /\ c.node = "Split" /\ Len(c.res.items) = 2 /\ Len(c.sent) = 4
        /\ Len(pipe.outputs[c.node]) = 2

\* C8: with a null or empty initial input and an entry node without required inputs,
\* the main traversal invokes the entry node's run exactly once, with None
EntryOnce ==
    (~Truthy(input) /\ Required(pipe.entry) = <<>>)
        => /\ Cardinality(MainRuns(pipe.entry)) <= 1
           /\ \A r \in MainRuns(pipe.entry) : r.arg = NoInput /\ r.key = NoKey
           /\ mpc \notin {"start", "join"} => Cardinality(MainRuns(pipe.entry)) = 1

\* C8 witness: run() called with an empty mapping has completed and the entry ran once
EntryOnceWitness ==
    /\ mpc = "complete"
    /\ input = MapInput(<<>>)
    /\ Required(pipe.entry) = <<>>
    /\ nruns[pipe.entry] = 1

----------------------------------------------------------------------------
(* Properties of the loader *)

\* C9: after every wiring step, B is in A.outputs exactly when A is in B.inputs
EdgeSymmetry ==
    \A a \in DOMAIN outputs : \A b \in DOMAIN outputs :
        b \in Range(outputs[a]) <=> a \in Range(inputs[b])

\* C9 witness: a document was wired in which one entry lists the same target twice and
\* one entry lists itself
EdgeSymmetryWitness ==
    /\ wpc = "done"
    /\ \E i \in DOMAIN doc :
          /\ Len(doc[i].outputs) = 2
          /\ doc[i].outputs[1] = doc[i].outputs[2]
          /\ doc[i].outputs[1] # doc[i].name
          /\ Len(outputs[node_map[doc[i].name]]) = 1
    /\ \E i \in DOMAIN doc :
          /\ doc[i].name \in Range(doc[i].outputs)
          /\ node_map[doc[i].name] \in Range(inputs[node_map[doc[i].name]])

\* the strings of a value: mapping values at any depth and list elements
RECURSIVE StringsOf(_)
StringsOf(v) ==
    CASE v.t = "str"  -> {v.s}
      [] v.t = "list" -> UNION {StringsOf(v.items[i]) : i \in DOMAIN v.items}
      [] v.t = "dict" -> UNION {StringsOf(v.items[i][2]) : i \in DOMAIN v.items}
      [] OTHER        -> {}

\* the string holds a ${NAME} token (what the loader's pattern matches)
HasToken(s) == \E i \in 1..Len(s) : TokenEnd(s, i) > 0

\* the string holds "${", then anything, then "}"
HasPlaceholder(s) ==
    \E i \in 1..Len(s) : \E j \in 1..Len(s) :
        i + 1 < j /\ s[i] = "$" /\ s[i + 1] = "{" /\ s[j] = "}"

\* the characters of s outside its ${NAME} tokens, from position i on
RECURSIVE Outside(_, _)
Outside(s, i) ==
    IF i > Len(s) THEN {}
    ELSE IF TokenEnd(s, i) > 0 THEN Outside(s, TokenEnd(s, i) + 1)
    ELSE {s[i]} \cup Outside(s, i + 1)

Special == {"$", "{", "}"}

\* "$", "{" and "}" occur in the document's strings only as parts of ${NAME} tokens
WellFormedDoc == \A s \in StringsOf(cfg) : Outside(s, 1) \cap Special = {}

\* no value of the environment holds "$", "{" or "}"
CleanEnv == \A n \in EnvNames : env[n].def => Range(env[n].val) \cap Special = {}

\* C10 (as stated): after a successful expansion no string of the configuration holds
\* a ${NAME} token, whatever the document and the environment
ExpansionTotal ==
    epc = "expanded" => \A s \in StringsOf(expanded) : ~HasToken(s)

\* C10 (amended): after a successful expansion no string holds a ${...} placeholder,
\* provided "$", "{", "}" occur in the document only as parts of ${NAME} tokens and no
\* environment value holds one of them
ExpansionTotalWellFormed ==
    (epc = "expanded" /\ WellFormedDoc /\ CleanEnv)
        => \A s \in StringsOf(expanded) : ~HasPlaceholder(s) /\ ~HasToken(s)

\* C10 witness: a string with two different tokens was expanded in such a document
ExpansionTotalWitness ==
    /\ epc = "expanded"
    /\ WellFormedDoc
    /\ CleanEnv
    /\ \E s \in StringsOf(cfg) : FindAll(s, 1) = << <<"A">>, <<"B">> >>
    /\ cfg.t = "dict"

\* the string with every match of the loader's pattern replaced by the value of its
\* variable in one pass from left to right (inserted text is not looked at again)
RECURSIVE OnePass(_, _, _)
OnePass(s, i, e) ==
    IF i > Len(s) THEN <<>>
    ELSE IF TokenEnd(s, i) > 0
         THEN e[SubSeq(s, i + 2, TokenEnd(s, i) - 1)].val \o OnePass(s, TokenEnd(s, i) + 1, e)
         ELSE << s[i] >> \o OnePass(s, i + 1, e)

\* C11: after a successful expansion every string of the configuration is the input
\* string with each ${NAME} replaced by the value of NAME in one simultaneous pass
SimultaneousPass ==
    epc = "expanded" => StringsOf(expanded) = {OnePass(s, 1, env) : s \in StringsOf(cfg)}

----------------------------------------------------------------------------
(* Properties of build_pipeline_from_yaml, the type check and the registry *)

Phases == <<"expand", "schema", "instantiate", "entrypoint", "name">>

\* some ${NAME} of the document names a variable the environment does not define
UndefinedVariable ==
    \E s \in StringsOf(cfg) : \E i \in DOMAIN FindAll(s, 1) : ~Defined(env, FindAll(s, 1)[i])

\* get_node_class was called or a node was put into node_map
Instantiating == calls # <<>> \/ \E n \in DocNames : node_map[n] # 0

\* C12: the phases run in the order expansion, schema validation, instantiate-and-wire,
\* entrypoint check, name check; the first phase that fails ends the build with its own
\* error and nothing is returned; no node is instantiated before expansion and schema
\* validation passed; an undefined variable fails the build at the expansion even when
\* the schema is violated too
PhaseOrder ==
    /\ IsPrefix(build.ran, Phases)
    /\ build.pc = "failed" =>
          /\ build.ran # <<>>
          /\ build.err.phase = build.ran[Len(build.ran)]
          /\ build.err.kind # "None"
    /\ build.pc = "returned" => (build.ran = Phases /\ build.err = NoFailure)
    /\ build.pc \notin {"failed", "returned"} =>
          (build.err = NoFailure /\ build.pc = Phases[Len(build.ran) + 1])
    /\ Instantiating =>
          (Len(build.ran) >= 2 /\ build.err.phase \notin {"expand", "schema"})
    /\ (UndefinedVariable /\ build.ran # <<>>) =>
          (build.pc = "failed" /\ build.err = [phase |-> "expand", kind |-> "ValueError"]
           /\ ~Instantiating)

\* C12 witness: a document with an undefined variable that also violates the schema
\* failed at the expansion
PhaseOrderWitness ==
    /\ build.pc = "failed"
    /\ build.err.phase = "expand"
    /\ ~SchemaOk(build)
    /\ UndefinedVariable

\* the declared types of the edge from entry i to the j-th name of its outputs
ProducerType(i) == output_type_of(types[node_map[doc[i].name]])
ConsumerType(i, j) == input_type_of(types[node_map[doc[i].outputs[j]]])

\* both sides declare a type (not any) and are_types_compatible rejects the pair
Rejected(a, b) ==
    /\ a \notin {NoType, AnyType}
    /\ b \notin {NoType, AnyType}
    /\ ~are_types_compatible(a, b)

\* the edges the wiring loop has gone past without raising
PassedEdges ==
    IF wpc \in {"connect", "done"} \/ (wpc = "error" /\ werr.kind # "ValueError")
    THEN {e \in UNION {{<<i, j>> : j \in DOMAIN doc[i].outputs} : i \in DOMAIN doc} :
              e[1] < wi \/ (e[1] = wi /\ e[2] < wj)}
    ELSE {}

RECURSIVE ArgsCompatible(_, _)
ArgsCompatible(a, b) ==
    /\ Len(a.args) = Len(b.args)
    /\ \A i \in DOMAIN a.args :
          \/ a.args[i] = b.args[i]
          \/ a.args[i] = AnyType
          \/ b.args[i] = AnyType
          \/ /\ get_origin(a.args[i]) # NoneV
             /\ get_origin(a.args[i]) = get_origin(b.args[i])
             /\ ArgsCompatible(a.args[i], b.args[i])

\* C14: for two generics of the same outer kind are_types_compatible compares the type
\* arguments position by position and recursively, and it is symmetric
RecursiveCompatibility ==
    (tpc = "checked" /\ get_origin(output_type) # NoneV
     /\ get_origin(output_type) = get_origin(input_type))
        => /\ compatible = ArgsCompatible(output_type, input_type)
           /\ compatible = are_types_compatible(input_type, output_type)

\* the names NODE_CLASSES holds a class for
Cached(cache) == {n \in DOMAIN cache : cache[n] # NoClass}

\* C19: get_node_class returns a class exactly for the names of the discovered map and
\* fails with the unknown-type error otherwise; a successful call leaves the class in
\* the cache and later calls with that name return the same class; a failed call
\* leaves the cache as it was; the cached names are discovered names
RegistryCache ==
    /\ Cached(NODE_CLASSES) \subseteq NODE_MODULES
    /\ \A i \in DOMAIN calls :
          /\ calls[i].ok <=> calls[i].name \in NODE_MODULES
          /\ calls[i].ok => (IsClass(calls[i].cls) /\ calls[i].after[calls[i].name] = calls[i].cls)
          /\ ~calls[i].ok => (calls[i].err = "ValueError" /\ calls[i].after = calls[i].before)
          /\ \A j \in DOMAIN calls :
                (i < j /\ calls[j].name = calls[i].name /\ calls[i].ok)
                    => (calls[j].ok /\ calls[j].cls = calls[i].cls
                        /\ calls[j].before[calls[j].name] = calls[i].cls)
          /\ i < Len(calls) => calls[i + 1].before = calls[i].after
    /\ calls # <<>> => NODE_CLASSES = calls[Len(calls)].after

\* C19 witness: a name was resolved, an unknown name failed, the first name was
\* resolved again
RegistryCacheWitness ==
    /\ Len(calls) = 3
    /\ calls[1].ok
    /\ ~calls[2].ok
    /\ calls[3].ok
    /\ calls[3].name = calls[1].name
    /\ Cached(NODE_CLASSES) = {calls[1].name}

\* C20: the build returns only when entrypoint names a node of the engine and name is
\* not empty; a build that reaches the entrypoint check with an empty entrypoint or
\* one that names no instantiated node fails with the entrypoint error
EntrypointRegistered ==
    /\ build.pc = "returned" =>
          /\ build.entrypoint \in DocNames
          /\ node_map[build.entrypoint] # 0
          /\ build.entrypoint \in {doc[i].name : i \in DOMAIN doc}
          /\ build.name \notin {Absent, ""}
    /\ (\/ build.entrypoint \in {Absent, ""}
        \/ build.entrypoint \notin {doc[i].name : i \in DOMAIN doc}) =>
          /\ build.pc # "returned"
          /\ "name" \notin Range(build.ran)
          /\ "entrypoint" \in Range(build.ran) =>
                (build.pc = "failed"
                 /\ build.err = [phase |-> "entrypoint", kind |-> "ValueError"])

\* C20 witness: a build returned whose entrypoint is the second node entry, and the
\* name check was passed
EntrypointRegisteredWitness ==
    /\ build.pc = "returned"
    /\ build.entrypoint = "B"
    /\ node_map["B"] = 2
    /\ build.name = "ventas"

----------------------------------------------------------------------------
(* Properties of the finalize phase and of the end of a run *)

\* a node with defer_output whose run returns None and whose finalize returns a
\* non-empty mapping
Deferring(d) ==
    /\ DeferOutput(d)
    /\ HasFinalize(d)
    /\ FinalizeResult(d).kind = "map"
    /\ FinalizeResult(d).items # <<>>
    /\ RunResult(d, NoInput).kind = "none"

\* what a child with required inputs is run with when d's finalize output reaches it
DeferredInput(d, child) ==
    MapInput([i \in 1..Len(Required(child)) |->
                <<Required(child)[i], Lookup(FinalizeResult(d).items, Required(child)[i])>>])

FinNodes == SelectSeq(pipe.nodes, HasFinalize)

\* every entry thread and every pool job has ended and the caller is in no delivery
Settled ==
    /\ thr[1].stack = <<>>
    /\ \A t \in Threads \ {1} : thr[t].st \in {"done", "dead"}

\* C16 (as stated): when a run has ended, finalize was invoked exactly once on every
\* node that exposes it
FinalizeOnceAlways ==
    mpc \in {"complete", "raised"} => finalized = FinNodes

\* C16 (amended): finalize is invoked at most once per node, only on nodes that expose
\* it, in registration order, and on every one of them when the run returns normally;
\* every finalize invocation begins with all deliveries of the main traversal, pooled
\* ones included, finished
FinalizeOnce ==
    /\ IsPrefix(finalized, FinNodes)
    /\ mpc = "complete" => finalized = FinNodes
    /\ Phase = "main" => finalized = <<>>
    /\ mpc = "fin" => Settled
    /\ finalized # <<>> => \A t \in Threads : thr[t].kind = "entry" => thr[t].st # "run"

\* C16 witness: a run with pooled deliveries returned after the one finalize
FinalizeOnceWitness ==
    /\ mpc = "complete"
    /\ finalized = <<"Defer">>
    /\ \E t \in Threads : thr[t].kind = "job"

\* C17: the lock is held only inside the with block of run_node, and every run ends:
\* it returns, or a finalize-phase exception leaves it, with no thread left running
RunReturns ==
    /\ [](lock # 0 => (Active(lock) /\ Top(lock).pc = "locked"))
    /\ [](mpc = "raised" => raised # {})
    /\ <>(mpc \in {"complete", "raised"} /\ Settled)

\* C17 witness: a run returned although Merge got one of its two keys only and never ran
RunReturnsWitness ==
    /\ mpc = "complete"
    /\ pipe = MidEntryPipe
    /\ nruns["Merge"] = 0
    /\ buf["Merge"]["data_1"] = "X"
    /\ lock = 0

\* C18: after a run has returned, every node's input buffer is empty
NoResidue ==
    mpc = "complete" => \A n \in NodeNames : buf[n] = EmptyBuffer

----------------------------------------------------------------------------
(* Properties of the loaded graph and of single deliveries *)

\* C21: after a successful load every node entry of the document has its own node:
\* the engine holds as many nodes as the document has entries and the name of each
\* entry leads to the node made for that entry
UniqueNodes ==
    build.pc = "returned" =>
        /\ Cardinality({n \in DocNames : node_map[n] # 0}) = Len(doc)
        /\ \A i \in DOMAIN doc : node_map[doc[i].name] = i

\* C22: a run that got a 429 slept for Retry-After seconds (1 if absent), called run
\* again and ended with the result of that call; the 429 did not make it fail
RetryOn429 ==
    (api.gets >= 1 /\ api.responses[1].status = 429 /\ api.pc # "retry") =>
        /\ api.slept >= retry_after(api.responses[1])
        /\ api.err # "TypeError"
        /\ (Len(api.responses) >= 2 /\ api.responses[2].status = 200) =>
              (api.pc = "returned" /\ api.gets = 2
               /\ api.result = Frame(api.responses[2], api.selected))

\* C23: a node without required_inputs that is delivered a non-null key is run with the
\* mapping {key: value}; it is run with None only when the key of the delivery is None
KeyedInputPassed ==
    \A r \in runlog : Required(r.node) = <<>> =>
        /\ r.key # NoKey => (r.arg.kind = "map" /\ Len(r.arg.items) = 1
                             /\ r.arg.items[1][1] = r.key)
        /\ r.arg = NoInput => r.key = NoKey

ListDispatch ==
    /\ \A c \in completed :
          c.res.kind = "list" =>
              /\ c.ok
              /\ Len(c.sent) = Len(c.res.items) * Len(pipe.outputs[c.node])
              /\ c.sent = Deliveries(c.node, c.res.items)
    /\ \A x \in Frames :
          FrameAt(x).pc = "wait" =>
              LET f == FrameAt(x)
                  child == pipe.outputs[f.node][f.ci]
              IN  /\ f.res.kind = "list"
                  /\ x[2] = Len(thr[x[1]].stack)
                  /\ Cardinality(f.jobs) = Len(f.res.items)
                  /\ \A j \in f.jobs :
                        /\ thr[j].kind = "job" /\ thr[j].owner = x[1]
                        /\ thr[j].stack # <<>> =>
                              /\ thr[j].stack[1].node = child
                              /\ <<thr[j].stack[1].key, thr[j].stack[1].val>>
                                    \in Range(f.res.items)
    /\ \A u \in Threads :
          (thr[u].kind = "job" /\ thr[u].st \in {"run", "queued"}) =>
              /\ Active(thr[u].owner)
              /\ Top(thr[u].owner).pc = "wait"
              /\ u \in Top(thr[u].owner).jobs

\* the jobs of the first child raised, the two pairs are being run by the second child
\* on two jobs at the same time, and the producer is still waiting
ListDispatchWitness ==
    /\ pipe = FanTwoPipe
    /\ \E u, v \in Threads :
          /\ u # v
          /\ thr[u].kind = "job" /\ thr[v].kind = "job"
          /\ Active(u) /\ Active(v)
          /\ Top(u).node = "Sink" /\ Top(v).node = "Sink"
          /\ Top(u).pc = "run" /\ Top(v).pc = "run"
          /\ Top(u).val # Top(v).val
          /\ Top(thr[u].owner).pc = "wait"
          /\ Len(Top(thr[u].owner).sent) = 4

\* the deliveries of a bare value: one per child, without a key
BareDeliveries(n, v) == [j \in 1..Len(pipe.outputs[n]) |-> <<pipe.outputs[n][j], NoKey, v>>]

\* C26 (as stated): every bare value a run returns gets exactly one delivery without a
\* key to each child
BareDispatchAlways ==
    \A c \in completed : c.res.kind = "bare" => c.sent = BareDeliveries(c.node, c.res.v)

\* a delivery without a key is decided by thread t in this step
NullDecided(t) == Active(t) /\ Top(t).pc = "locked" /\ Top(t).key = NoKey /\ thr'[t] # thr[t]

\* the step of thread t ends in an execution of the node it was delivered to
Executes(t) ==
    /\ Len(thr'[t].stack) = Len(thr[t].stack)
    /\ thr'[t].stack[Len(thr'[t].stack)].pc = "run"
    /\ thr'[t].stack[Len(thr'[t].stack)].node = Top(t).node

\* C26 (amended): a bare value gets one delivery without a key to each child, child by
\* child, provided none of these deliveries raises (a delivery that raises ends the loop);
\* a delivery without a key stores nothing, makes a child without required inputs execute,
\* and makes a child with required inputs execute exactly when all its required keys are
\* in its buffer already
BareDispatch ==
    /\ [](\A c \in completed :
            c.res.kind = "bare" =>
                /\ IsPrefix(c.sent, BareDeliveries(c.node, c.res.v))
                /\ c.ok => c.sent = BareDeliveries(c.node, c.res.v))
    /\ [][\A t \in Threads :
            NullDecided(t) =>
                /\ buf' = buf
                /\ Executes(t) <=>
                      \A i \in 1..Len(Required(Top(t).node)) :
                          buf[Top(t).node][Required(Top(t).node)[i]] # Absent
         ]_vars

\* the bare value went to both children: the one without required inputs ran on it, the
\* one that requires "data" did not, and nothing was stored for either
BareDispatchWitness ==
    /\ pipe = BarePipe
    /\ mpc = "complete"
    /\ \E c \in completed :
          c.node = "Scalar" /\ c.ok /\ c.sent = << <<"Sink", NoKey, "v">>, <<"Write", NoKey, "v">> >>
    /\ nruns["Sink"] = 1 /\ nruns["Write"] = 0
    /\ \E r \in runlog : r.node = "Sink" /\ r.key = NoKey
    /\ buf["Write"] = EmptyBuffer /\ buf["Sink"] = EmptyBuffer

\* the run_node calls in progress on some thread: entry threads and pool jobs that have
\* started and not returned, and the deliveries the caller of run() makes itself
Executing == {t \in Threads : Active(t)}

\* C27: at every moment of a run no more than max_workers deliveries execute
\* concurrently, entry-trigger deliveries and nested list dispatches counted together
BoundedConcurrency == Cardinality(Executing) <= max_workers

\* deliveries to n that have not reached node.run yet
Pending(n) ==
    {x \in Frames : FrameAt(x).node = n /\ FrameAt(x).pc \in {"call", "locked", "run"}}

\* C28: a node without required_inputs executes once for every delivery it receives:
\* its run invocations and the deliveries still on their way to run add up to the
\* run_node calls made for it (an n-key mapping from one parent is n deliveries, an
\* n-key initial input is n deliveries to the entry node)
OncePerDelivery ==
    \A n \in NodeNames :
        Required(n) = <<>> => nruns[n] + Cardinality(Pending(n)) = delivered[n]

\* a two-key initial input ran the entry node twice, and each of its two-key results
\* ran the child twice
OncePerDeliveryWitness ==
    /\ pipe = SplitSinkPipe
    /\ mpc = "complete"
    /\ Len(input.items) = 2
    /\ nruns["Split"] = 2
    /\ \A c \in completed : c.node = "Split" => Len(c.res.items) = 2 /\ Len(c.sent) = 2
    /\ delivered["Sink"] = 4
    /\ nruns["Sink"] = 4

\* the run of the node thread t is about to execute raises in this step
RunRaises(t) ==
    /\ Active(t) /\ Top(t).pc = "run"
    /\ RunResult(Top(t).node, RunArg(Top(t))).kind = "raise"
    /\ thr'[t] # thr[t]

\* C29: a run that raises leaves the buffer of its node as it is (no clear), makes no
\* delivery to a child for that execution, and changes the buffer of no other node
RaiseKeepsBuffers ==
    [][\A t \in Threads :
         RunRaises(t) =>
            /\ buf' = buf
            /\ Top(t).sent = <<>>
            /\ delivered' = delivered
            /\ Len(thr') = Len(thr)
            /\ thr'[t].stack = <<>>
      ]_vars

\* the node that requires "data" raised on it: the value is still in its buffer when the
\* run is over, and the child after it in its parent's loop received nothing
RaiseKeepsBuffersWitness ==
    /\ pipe = BoomInlinePipe
    /\ mpc = "complete"
    /\ "BoomIn" \in raised
    /\ nruns["BoomIn"] = 1
    /\ buf["BoomIn"]["data"] = "XY"
    /\ delivered["Sink"] = 0

\* C30: the finalize phase visits the nodes in registration order whatever the edges
\* are; a finalize is invoked only when the output of the previous one has been
\* propagated to completion; no node is finalized twice, not even one that executes
\* again later in the phase
FinalizeOrder ==
    /\ [](/\ IsPrefix(finalized, FinNodes)
          /\ Cardinality(Range(finalized)) = Len(finalized)
          /\ mpc = "finprop" =>
                /\ finalized # <<>>
                /\ thr[1].stack # <<>>
                /\ thr[1].stack[1].fin
                /\ thr[1].stack[1].node = finalized[Len(finalized)]
                /\ pipe.nodes[fi] = finalized[Len(finalized)])
    /\ [][finalized' # finalized =>
            /\ Settled
            /\ fi \in 1..Len(pipe.nodes)
            /\ finalized' = Append(finalized, pipe.nodes[fi])
            /\ \A i \in 1..(fi - 1) :
                  HasFinalize(pipe.nodes[i]) => pipe.nodes[i] \in Range(finalized)
         ]_vars

\* the child was registered before its parent and finalized first; the parent's finalize
\* output then made it execute, and it was not finalized again
FinalizeOrderWitness ==
    /\ pipe = LatePipe
    /\ mpc = "complete"
    /\ finalized = <<"Late", "Defer", "Last">>
    /\ "Late" \in Range(pipe.outputs["Defer"])
    /\ \E r \in runlog : r.node = "Late" /\ r.phase = "finalize" /\ r.key = "data"

====
